---- MODULE Spec2Model ----
(***************************************************************************)
(* FileFlow (src/src/App.tsx): two browser instances of the App component  *)
(* exchange one file over a WebRTC data channel after a rendezvous through *)
(* a Firestore document keyed by a share code.                             *)
(*                                                                         *)
(* App "I" is the instance whose user picks a file (handleFileChange, the  *)
(* initiator); App "R" is the instance whose user submits a share code     *)
(* (handleReceiveSubmit, the responder).  Every action below is one        *)
(* JavaScript task: an event handler, or the continuation of an async      *)
(* function from one await to the next.                                    *)
(***************************************************************************)
EXTENDS Integers, Sequences, FiniteSets, TLC

\* ------------------------------------------------------------------ bounds
\* Sessions an App instance starts, one after the other.
MaxSessions == 2
\* Largest file, in bytes.
MaxFileSize == 3
\* Bytes per chunk: CHUNK_SIZE of sendFileInChunks (64 * 1024), scaled down so
\* that files of MaxFileSize bytes need a full chunk and a shorter last one.
CHUNK_SIZE == 2
\* Local network candidates one RTCPeerConnection reports.
MaxCand == 1
\* Clicks on Cancel per App instance.
MaxCancels == 1
\* Invocations of the responder's snapshot callback suspended at an await.
MaxInv == 2
\* Messages a remote peer that is not this program sends.
MaxPeerMsgs == 3
\* A declared size large enough for one byte to be less than half a percent.
BigSize == 200

Apps == {"I", "R"}
Sessions == 1..MaxSessions
\* One share code per initiator session: session k generates code k.
Codes == Sessions
\* One RTCDataChannel per initiator session: channel k is created by session k.
\* PeerChan is the channel of a remote peer that is not this program.
PeerChan == MaxSessions + 1
Chans == 1..PeerChan
Invs == 1..MaxInv

\* ------------------------------------------------------------- value codes
\* The offer of initiator session k is the value k; 0 is "no description".
\* The n-th answer created on responder connection j:
AnsId(j, n) == 10 * j + n
\* The i-th candidate of connection k of App a:
CandId(a, k, i) == (IF a = "I" THEN 100 ELSE 200) + 10 * k + i
AllCands == {CandId(a, k, i) : a \in Apps, k \in Sessions, i \in 1..MaxCand}
\* The file picked in session k has n bytes, byte i being 10k + i.
FileBytes(k, n) == [i \in 1..n |-> 10 * k + i]

Min(a, b) == IF a < b THEN a ELSE b

RECURSIVE Concat(_)
\* new Blob(chunks): the chunks' bytes, in order.
Concat(chunks) ==
  IF chunks = <<>> THEN <<>> ELSE Head(chunks) \o Concat(Tail(chunks))

RECURSIVE SumLen(_)
SumLen(msgs) ==
  IF msgs = <<>> THEN 0 ELSE Len(Head(msgs).bytes) + SumLen(Tail(msgs))

\* ------------------------------------------------------------------- state
VARIABLES
  \* React state and refs of each App instance
  mode, shareCode, file, peerConnection, dataChannel,
  receivedChunks, receivedFileSize, fileMetadata,
  \* sessions started so far by each instance, and the share code of each
  sess, code,
  \* the RTCPeerConnection objects
  conn,
  \* handleFileChange: where each invocation is suspended; the shareCode the
  \* closures of that render captured
  hfc, captured,
  \* Firestore: the documents, each client's queue of writes not yet
  \* acknowledged, each onSnapshot listener
  rec, wq, lsn,
  \* suspended invocations of the responder's snapshot callback
  inv,
  \* the data channels and the messages in flight on them
  chan, net,
  \* sendFileInChunks runs, what each handed to a channel, setTimeout timers
  run, sent, timer, rTimers,
  \* what the receiver handed to the download link; last progress shown
  delivered, progress,
  \* observation: answers written, deletes issued, cancels clicked / done
  answerWrites, delIssued, nCancel, cancelDone

appVars == <<mode, shareCode, file, peerConnection, dataChannel,
             receivedChunks, receivedFileSize, fileMetadata>>
vars == <<mode, shareCode, file, peerConnection, dataChannel,
          receivedChunks, receivedFileSize, fileMetadata, sess, code, conn,
          hfc, captured, rec, wq, lsn, inv, chan, net, run, sent, timer,
          rTimers, delivered, progress, answerWrites, delIssued, nCancel,
          cancelDone>>

\* snapshot.data() of a document that does not exist
NoRec == [exists |-> FALSE, offer |-> 0, offerCandidates |-> {},
          answer |-> 0, answerCandidates |-> {}]

\* new RTCPeerConnection(servers).  ops is the connection's chain of
\* operations not yet completed; srdCalls and added count the calls of
\* setRemoteDescription and of addIceCandidate (per candidate) made on it.
NewConn == [closed |-> FALSE, signalingState |-> "stable",
            localDescription |-> 0, pendingRemoteDescription |-> 0,
            currentRemoteDescription |-> 0, ops |-> <<>>,
            nCand |-> 0, nAns |-> 0, srdCalls |-> 0,
            added |-> [c \in AllCands |-> 0]]

NoMeta == [name |-> 0, size |-> -1]
NoInv == [pos |-> "free", k |-> 0, offer |-> 0, cands |-> {}, ans |-> 0]

\* Encodings of what Math.round returns when the division is by zero.
NaN == -1
Infinity == -2
NoProgress == -3

Init ==
  /\ mode = [a \in Apps |-> "idle"]
  /\ shareCode = [a \in Apps |-> 0]
  /\ file = [a \in Apps |-> -1]
  /\ peerConnection = [a \in Apps |-> 0]
  /\ dataChannel = [a \in Apps |-> 0]
  /\ receivedChunks = [a \in Apps |-> <<>>]
  /\ receivedFileSize = [a \in Apps |-> 0]
  /\ fileMetadata = [a \in Apps |-> NoMeta]
  /\ sess = [a \in Apps |-> 0]
  /\ code = [a \in Apps |-> [k \in Sessions |-> 0]]
  /\ conn = [a \in Apps |-> [k \in Sessions |-> NewConn]]
  /\ hfc = [k \in Sessions |-> "none"]
  /\ captured = [k \in Sessions |-> 0]
  /\ rec = [c \in Codes |-> NoRec]
  /\ wq = [a \in Apps |-> <<>>]
  /\ lsn = [a \in Apps |-> [k \in Sessions |-> "none"]]
  /\ inv = [n \in Invs |-> NoInv]
  /\ chan = [c \in Chans |-> [state |-> "none", peer |-> 0, remote |-> "none"]]
  /\ net = [c \in Chans |-> <<>>]
  /\ run = [k \in Sessions |-> [pos |-> "none", offset |-> 0, size |-> 0]]
  /\ sent = [c \in Chans |-> <<>>]
  /\ timer = [k \in Sessions |-> "none"]
  /\ rTimers = [j \in Sessions |-> 0]
  /\ delivered = <<>>
  /\ progress = NoProgress
  /\ answerWrites = [k \in Sessions |-> <<>>]
  /\ delIssued = [a \in Apps |-> {}]
  /\ nCancel = [a \in Apps |-> 0]
  /\ cancelDone = [a \in Apps |-> {}]

\* ------------------------------------------------------------- resetState
\* RTCPeerConnection.close(): the operations still chained on the connection
\* never complete.
CloseConn(cn) == [cn EXCEPT !.closed = TRUE, !.ops = <<>>]

ConnAfterReset(a) ==
  IF peerConnection[a] = 0 THEN conn
  ELSE [conn EXCEPT ![a][peerConnection[a]] = CloseConn(@)]

\* The initiator's connection owns the channel it created; the responder's
\* connection owns its end of the channel announced to it.
ChanAfterReset(a) ==
  [c \in Chans |->
     IF a = "I" /\ c = dataChannel["I"]
       THEN [chan[c] EXCEPT !.state = "closed"]
     ELSE IF a = "R" /\ peerConnection["R"] # 0
                     /\ chan[c].peer = peerConnection["R"]
       THEN [chan[c] EXCEPT !.remote = "closed"]
     ELSE chan[c]]

\* close() is abrupt: of the messages the sender's channel still buffers only
\* the first keep were transmitted; a closed receiving end dispatches nothing.
NetAfterReset(a, keep) ==
  [c \in Chans |->
     IF a = "I" /\ c = dataChannel["I"] THEN SubSeq(net[c], 1, keep)
     ELSE IF a = "R" /\ peerConnection["R"] # 0
                     /\ chan[c].peer = peerConnection["R"] THEN <<>>
     ELSE net[c]]

KeepChoices(a) ==
  IF a = "I" /\ dataChannel["I"] # 0 THEN 0..Len(net[dataChannel["I"]])
  ELSE {0}

\* An invocation of the responder's snapshot callback that awaits an
\* operation of the closed connection never resumes.
InvAfterReset(a) ==
  IF a = "R"
    THEN [n \in Invs |->
            IF inv[n].pos \in {"sRD", "cA", "sLD"} THEN NoInv ELSE inv[n]]
    ELSE inv

ResetState(a, keep) ==
  /\ conn' = ConnAfterReset(a)
  /\ chan' = ChanAfterReset(a)
  /\ net' = NetAfterReset(a, keep)
  /\ inv' = InvAfterReset(a)
  /\ peerConnection' = [peerConnection EXCEPT ![a] = 0]
  /\ dataChannel' = [dataChannel EXCEPT ![a] = 0]
  /\ receivedChunks' = [receivedChunks EXCEPT ![a] = <<>>]
  /\ receivedFileSize' = [receivedFileSize EXCEPT ![a] = 0]
  /\ fileMetadata' = [fileMetadata EXCEPT ![a] = NoMeta]
  /\ file' = [file EXCEPT ![a] = -1]
  /\ shareCode' = [shareCode EXCEPT ![a] = 0]
  /\ mode' = [mode EXCEPT ![a] = "idle"]

\* --------------------------------------------------------------- Firestore
\* The effect of one write on the document it names.
Apply(r, w) ==
  CASE w.op = "set" ->
         [exists |-> TRUE, offer |-> w.val, offerCandidates |-> {},
          answer |-> 0, answerCandidates |-> {}]
    [] w.op = "offerCand" ->
         IF r.exists THEN [r EXCEPT !.offerCandidates = @ \cup {w.val}] ELSE r
    [] w.op = "answerCand" ->
         IF r.exists THEN [r EXCEPT !.answerCandidates = @ \cup {w.val}] ELSE r
    [] w.op = "answer" ->
         IF r.exists THEN [r EXCEPT !.answer = w.val, !.answerCandidates = {}]
         ELSE r
    [] w.op = "delete" -> NoRec

\* updateDoc rejects when the document does not exist; setDoc and deleteDoc
\* do not.
Succeeds(r, w) == w.op \in {"set", "delete"} \/ r.exists

RecAfter(w) == [rec EXCEPT ![w.code] = Apply(@, w)]

\* Every listener of a document whose data changed gets a new snapshot.
LsnAfter(w) ==
  [b \in Apps |-> [k \in Sessions |->
     IF lsn[b][k] # "none" /\ code[b][k] = w.code
        /\ Apply(rec[w.code], w) # rec[w.code]
       THEN "pending" ELSE lsn[b][k]]]

Issue(a, w) == [wq EXCEPT ![a] = Append(@, w)]

\* Writes of one client are sent and acknowledged in the order issued.
Committing(a, cont) == wq[a] # <<>> /\ Head(wq[a]).cont = cont

Commit(a) ==
  /\ rec' = RecAfter(Head(wq[a]))
  /\ wq' = [wq EXCEPT ![a] = Tail(@)]

\* --------------------------------------------------------------- initiator
\* The user picked a file of n bytes; the Send tile is rendered only in the
\* idle view.  Runs up to the first await (createOffer).
handleFileChange(n) ==
  LET k == sess["I"] + 1 IN
  /\ mode["I"] = "idle"
  /\ sess["I"] < MaxSessions
  /\ sess' = [sess EXCEPT !["I"] = k]
  /\ file' = [file EXCEPT !["I"] = n]
  /\ mode' = [mode EXCEPT !["I"] = "sending"]
  /\ peerConnection' = [peerConnection EXCEPT !["I"] = k]
  /\ conn' = [conn EXCEPT !["I"][k] = NewConn]
  /\ dataChannel' = [dataChannel EXCEPT !["I"] = k]
  /\ chan' = [chan EXCEPT ![k] = [state |-> "connecting", peer |-> 0,
                                  remote |-> "none"]]
  /\ code' = [code EXCEPT !["I"][k] = k]
  /\ shareCode' = [shareCode EXCEPT !["I"] = k]
  \* onopen calls the sendFileInChunks of this render, whose shareCode is
  \* the state as it was when the handler was invoked
  /\ captured' = [captured EXCEPT ![k] = shareCode["I"]]
  \* ... and the file it will send is selectedFile
  /\ run' = [run EXCEPT ![k] = [pos |-> "none", offset |-> 0, size |-> n]]
  /\ hfc' = [hfc EXCEPT ![k] = "createOffer"]
  /\ UNCHANGED <<receivedChunks, receivedFileSize, fileMetadata, rec, wq,
                 lsn, inv, net, sent, timer, rTimers, delivered,
                 progress, answerWrites, delIssued, nCancel, cancelDone>>

\* createOffer resolved; the handler calls setLocalDescription.
createOfferDone(k) ==
  /\ hfc[k] = "createOffer"
  /\ ~conn["I"][k].closed
  /\ hfc' = [hfc EXCEPT ![k] = "setLocalDescription"]
  /\ UNCHANGED <<appVars, sess, code, conn, captured, rec, wq, lsn, inv, chan,
                 net, run, sent, timer, rTimers, delivered, progress,
                 answerWrites, delIssued, nCancel, cancelDone>>

\* setLocalDescription(offer) resolved; the handler issues setDoc.
setLocalDescriptionDone(k) ==
  /\ hfc[k] = "setLocalDescription"
  /\ ~conn["I"][k].closed
  /\ conn' = [conn EXCEPT !["I"][k].signalingState = "have-local-offer",
                          !["I"][k].localDescription = k]
  /\ wq' = Issue("I", [op |-> "set", code |-> code["I"][k], val |-> k,
                       cont |-> "hfc", k |-> k])
  /\ hfc' = [hfc EXCEPT ![k] = "setDoc"]
  /\ UNCHANGED <<appVars, sess, code, captured, rec, lsn, inv, chan, net,
                 run, sent, timer, rTimers, delivered, progress, answerWrites,
                 delIssued, nCancel, cancelDone>>

\* setDoc acknowledged; the handler registers its onSnapshot listener, which
\* is first called with the document as it is.
setDocDone(k) ==
  /\ Committing("I", "hfc")
  /\ Head(wq["I"]).k = k
  /\ Commit("I")
  /\ lsn' = [LsnAfter(Head(wq["I"])) EXCEPT !["I"][k] = "pending"]
  /\ hfc' = [hfc EXCEPT ![k] = "subscribed"]
  /\ UNCHANGED <<appVars, sess, code, conn, captured, inv, chan, net, run,
                 sent, timer, rTimers, delivered, progress, answerWrites,
                 delIssued, nCancel, cancelDone>>

\* onicecandidate of either role: a connection with a local description
\* reports a candidate, which the handler appends to the document.
onicecandidate(a, k) ==
  /\ k <= sess[a]
  /\ ~conn[a][k].closed
  /\ conn[a][k].localDescription # 0
  /\ conn[a][k].nCand < MaxCand
  /\ conn' = [conn EXCEPT ![a][k].nCand = @ + 1]
  /\ wq' = Issue(a, [op |-> IF a = "I" THEN "offerCand" ELSE "answerCand",
                     code |-> code[a][k],
                     val |-> CandId(a, k, conn[a][k].nCand + 1),
                     cont |-> "none", k |-> k])
  /\ UNCHANGED <<appVars, sess, code, hfc, captured, rec, lsn, inv, chan, net,
                 run, sent, timer, rTimers, delivered, progress, answerWrites,
                 delIssued, nCancel, cancelDone>>

\* updateDoc(arrayUnion(candidate)) reaches the server.
candidateWritten(a) ==
  /\ Committing(a, "none")
  /\ Commit(a)
  /\ lsn' = LsnAfter(Head(wq[a]))
  /\ UNCHANGED <<appVars, sess, code, conn, hfc, captured, inv, chan, net,
                 run, sent, timer, rTimers, delivered, progress, answerWrites,
                 delIssued, nCancel, cancelDone>>

\* ------------------------------------------------------------ handleCancel
\* The Cancel button is rendered in the sending and the receiving view; its
\* handler is the one of the current render, so it reads the current
\* shareCode.  Runs up to the await of deleteDoc.
handleCancel(a) ==
  /\ mode[a] # "idle"
  /\ nCancel[a] < MaxCancels
  /\ nCancel' = [nCancel EXCEPT ![a] = @ + 1]
  /\ IF shareCode[a] # 0
       THEN /\ wq' = Issue(a, [op |-> "delete", code |-> shareCode[a],
                               val |-> 0, cont |-> "reset", k |-> sess[a]])
            /\ delIssued' = [delIssued EXCEPT ![a] = @ \cup {shareCode[a]}]
            /\ UNCHANGED <<appVars, conn, chan, net, inv, cancelDone>>
       ELSE /\ \E keep \in KeepChoices(a) : ResetState(a, keep)
            /\ cancelDone' = [cancelDone EXCEPT ![a] = @ \cup {sess[a]}]
            /\ UNCHANGED <<wq, delIssued>>
  /\ UNCHANGED <<sess, code, hfc, captured, rec, lsn, run, sent, timer,
                 rTimers, delivered, progress, answerWrites>>

\* deleteDoc acknowledged: handleCancel (write value 0) or the sender's
\* timeout callback (write value 1) goes on to call resetState.
deleteDocDone(a) ==
  LET w == Head(wq[a]) IN
  /\ Committing(a, "reset")
  /\ Commit(a)
  /\ lsn' = LsnAfter(w)
  /\ \E keep \in KeepChoices(a) : ResetState(a, keep)
  /\ cancelDone' = IF w.val = 0 THEN [cancelDone EXCEPT ![a] = @ \cup {w.k}]
                   ELSE cancelDone
  /\ timer' = IF w.val = 1 THEN [timer EXCEPT ![w.k] = "fired"] ELSE timer
  /\ UNCHANGED <<sess, code, hfc, captured, run, sent, rTimers,
                 delivered, progress, answerWrites, delIssued, nCancel>>

\* ------------------------------------------------- initiator's onSnapshot
\* peerConnection.current?.setRemoteDescription(d): chained on the connection.
SetRemoteCalled(cn, d) ==
  [cn EXCEPT !.ops = Append(@, d), !.srdCalls = @ + 1]

\* The forEach as it would be if the callback walked the candidate list twice.
AddIceCandidatesTwice(cn, cands) ==
  [cn EXCEPT !.added = [c \in AllCands |->
                          IF c \in cands THEN @[c] + 2 ELSE @[c]]]

\* candidates.forEach(c => peerConnection.current?.addIceCandidate(c))
AddIceCandidates(cn, cands) ==
  [cn EXCEPT !.added = [c \in AllCands |->
                          IF c \in cands THEN @[c] + 1 ELSE @[c]]]

\* The guard of the initiator's listener.
AnswerGuard(data, p) ==
  /\ ~(p # 0 /\ conn["I"][p].currentRemoteDescription # 0)
  /\ data.exists
  /\ data.answer # 0

\* The listener session k registered is called with a snapshot of its
\* document.  It acts on whatever connection peerConnection.current is now.
onSnapshotInitiator(k) ==
  LET data == rec[code["I"][k]]
      p == peerConnection["I"] IN
  /\ lsn["I"][k] = "pending"
  /\ lsn' = [lsn EXCEPT !["I"][k] = "idle"]
  /\ conn' = IF p = 0 THEN conn
             ELSE [conn EXCEPT !["I"][p] =
                     AddIceCandidates(
                       IF AnswerGuard(data, p)
                         THEN SetRemoteCalled(@, data.answer) ELSE @,
                       data.answerCandidates)]
  /\ UNCHANGED <<appVars, sess, code, hfc, captured, rec, wq, inv, chan, net,
                 run, sent, timer, rTimers, delivered, progress, answerWrites,
                 delIssued, nCancel, cancelDone>>

\* The transport completes a setRemoteDescription(answer) of the initiator:
\* applied in have-local-offer, rejected (InvalidStateError) otherwise.
setRemoteAnswerDone(k) ==
  LET cn == conn["I"][k] IN
  /\ ~cn.closed
  /\ cn.ops # <<>>
  /\ conn' = [conn EXCEPT !["I"][k] =
                IF cn.signalingState = "have-local-offer"
                  THEN [cn EXCEPT !.signalingState = "stable",
                                  !.currentRemoteDescription = Head(cn.ops),
                                  !.ops = Tail(cn.ops)]
                  ELSE [cn EXCEPT !.ops = Tail(cn.ops)]]
  /\ UNCHANGED <<appVars, sess, code, hfc, captured, rec, wq, lsn, inv, chan,
                 net, run, sent, timer, rTimers, delivered, progress,
                 answerWrites, delIssued, nCancel, cancelDone>>

\* --------------------------------------------------------------- responder
\* The user submitted share code c in the modal the idle view opens.
handleReceiveSubmit(c) ==
  LET j == sess["R"] + 1 IN
  /\ mode["R"] = "idle"
  /\ sess["R"] < MaxSessions
  /\ sess' = [sess EXCEPT !["R"] = j]
  /\ shareCode' = [shareCode EXCEPT !["R"] = c]
  /\ mode' = [mode EXCEPT !["R"] = "receiving"]
  /\ peerConnection' = [peerConnection EXCEPT !["R"] = j]
  /\ conn' = [conn EXCEPT !["R"][j] = NewConn]
  /\ code' = [code EXCEPT !["R"][j] = c]
  /\ lsn' = [lsn EXCEPT !["R"][j] = "pending"]
  /\ UNCHANGED <<file, dataChannel, receivedChunks, receivedFileSize,
                 fileMetadata, hfc, captured, rec, wq, inv, chan, net, run,
                 sent, timer, rTimers, delivered, progress, answerWrites,
                 delIssued, nCancel, cancelDone>>

\* The guard of the responder's listener.
OfferGuard(data, p) ==
  /\ data.exists
  /\ data.offer # 0
  /\ ~(p # 0 /\ conn["R"][p].currentRemoteDescription # 0)

FreeInv == CHOOSE n \in Invs :
             inv[n].pos = "free" /\ \A m \in 1..(n - 1) : inv[m].pos # "free"

\* The listener session j registered is called with a snapshot.  If the guard
\* passes, the invocation suspends at setRemoteDescription(offer) and keeps the
\* snapshot's candidates for later; otherwise it adds them at once.  With no
\* connection (peerConnection.current null) a passing guard ends in a
\* TypeError before anything is done.
onSnapshotResponder(j) ==
  LET data == rec[code["R"][j]]
      p == peerConnection["R"] IN
  /\ lsn["R"][j] = "pending"
  /\ lsn' = [lsn EXCEPT !["R"][j] = "idle"]
  /\ IF OfferGuard(data, p)
       THEN IF p = 0 THEN UNCHANGED <<conn, inv>>
            ELSE /\ \E n \in Invs : inv[n].pos = "free"
                 /\ inv' = [inv EXCEPT ![FreeInv] =
                              [pos |-> "sRD", k |-> j, offer |-> data.offer,
                               cands |-> data.offerCandidates, ans |-> 0]]
                 /\ conn' = [conn EXCEPT !["R"][p] =
                               [@ EXCEPT !.ops = Append(@, FreeInv),
                                         !.srdCalls = @ + 1]]
       ELSE /\ conn' = IF p = 0 THEN conn
                       ELSE [conn EXCEPT !["R"][p] =
                               AddIceCandidates(@, data.offerCandidates)]
            /\ UNCHANGED inv
  /\ UNCHANGED <<appVars, sess, code, hfc, captured, rec, wq, chan, net, run,
                 sent, timer, rTimers, delivered, progress, answerWrites,
                 delIssued, nCancel, cancelDone>>

\* The head of the operations chain of responder connection j, and the
\* invocation that awaits it.
HeadInv(j, pos) ==
  /\ ~conn["R"][j].closed
  /\ conn["R"][j].ops # <<>>
  /\ inv[Head(conn["R"][j].ops)].pos = pos

\* setRemoteDescription(offer) completes (allowed in stable and in
\* have-remote-offer); the invocation calls createAnswer.
setRemoteOfferDone(j) ==
  LET n == Head(conn["R"][j].ops) IN
  /\ HeadInv(j, "sRD")
  /\ conn' = [conn EXCEPT !["R"][j] =
                [@ EXCEPT !.signalingState = "have-remote-offer",
                          !.pendingRemoteDescription = inv[n].offer,
                          !.ops = Append(Tail(@), n)]]
  /\ inv' = [inv EXCEPT ![n].pos = "cA"]
  /\ UNCHANGED <<appVars, sess, code, hfc, captured, rec, wq, lsn, chan, net,
                 run, sent, timer, rTimers, delivered, progress, answerWrites,
                 delIssued, nCancel, cancelDone>>

\* createAnswer completes: a fresh answer in have-remote-offer, after which
\* the invocation calls setLocalDescription; an InvalidStateError otherwise,
\* which ends the invocation.
createAnswerDone(j) ==
  LET n == Head(conn["R"][j].ops)
      cn == conn["R"][j] IN
  /\ HeadInv(j, "cA")
  /\ IF cn.signalingState = "have-remote-offer"
       THEN /\ conn' = [conn EXCEPT !["R"][j] =
                          [@ EXCEPT !.nAns = @ + 1,
                                    !.ops = Append(Tail(@), n)]]
            /\ inv' = [inv EXCEPT ![n].pos = "sLD",
                                  ![n].ans = AnsId(j, cn.nAns + 1)]
       ELSE /\ conn' = [conn EXCEPT !["R"][j].ops = Tail(@)]
            /\ inv' = [inv EXCEPT ![n] = NoInv]
  /\ UNCHANGED <<appVars, sess, code, hfc, captured, rec, wq, lsn, chan, net,
                 run, sent, timer, rTimers, delivered, progress, answerWrites,
                 delIssued, nCancel, cancelDone>>

\* setLocalDescription(answer) completes: in have-remote-offer the negotiation
\* is done (the offer becomes currentRemoteDescription) and the invocation
\* issues updateDoc({answer, answerCandidates: []}); otherwise the call is
\* rejected, which ends the invocation.
setLocalAnswerDone(j) ==
  LET n == Head(conn["R"][j].ops)
      cn == conn["R"][j] IN
  /\ HeadInv(j, "sLD")
  /\ IF cn.signalingState = "have-remote-offer"
       THEN /\ conn' = [conn EXCEPT !["R"][j] =
                          [@ EXCEPT !.signalingState = "stable",
                                    !.currentRemoteDescription =
                                       cn.pendingRemoteDescription,
                                    !.pendingRemoteDescription = 0,
                                    !.localDescription = inv[n].ans,
                                    !.ops = Tail(@)]]
            /\ inv' = [inv EXCEPT ![n].pos = "uD"]
            /\ wq' = Issue("R", [op |-> "answer", code |-> code["R"][inv[n].k],
                                 val |-> inv[n].ans, cont |-> "inv", k |-> n])
            /\ answerWrites' = [answerWrites EXCEPT ![inv[n].k] =
                                  Append(@, inv[n].ans)]
       ELSE /\ conn' = [conn EXCEPT !["R"][j].ops = Tail(@)]
            /\ inv' = [inv EXCEPT ![n] = NoInv]
            /\ UNCHANGED <<wq, answerWrites>>
  /\ UNCHANGED <<appVars, sess, code, hfc, captured, rec, lsn, chan, net, run,
                 sent, timer, rTimers, delivered, progress, delIssued,
                 nCancel, cancelDone>>

\* updateDoc({answer, answerCandidates: []}) reaches the server.  If it is
\* acknowledged the invocation goes on to add the candidates of its snapshot to
\* whatever connection peerConnection.current is now; if the document is gone
\* the await throws.
answerWritten(n) ==
  LET w == Head(wq["R"])
      p == peerConnection["R"] IN
  /\ Committing("R", "inv")
  /\ w.k = n
  /\ Commit("R")
  /\ lsn' = LsnAfter(w)
  /\ inv' = [inv EXCEPT ![n] = NoInv]
  /\ conn' = IF Succeeds(rec[w.code], w) /\ p # 0
               THEN [conn EXCEPT !["R"][p] = AddIceCandidates(@, inv[n].cands)]
               ELSE conn
  /\ UNCHANGED <<appVars, sess, code, hfc, captured, chan, net, run, sent,
                 timer, rTimers, delivered, progress, answerWrites, delIssued,
                 nCancel, cancelDone>>

\* ---------------------------------------------------------------- transfer
Meta(k, n) == [t |-> "meta", name |-> k, size |-> n, bytes |-> <<>>]
Bin(b) == [t |-> "bin", name |-> 0, size |-> 0, bytes |-> b]
Logged(m, d) == [t |-> m.t, name |-> m.name, size |-> m.size,
                 bytes |-> m.bytes, ch |-> d]

\* The transport connects two connections that completed the offer/answer
\* exchange with each other and of which one knows a candidate of the other.
Negotiated(k, j) ==
  /\ ~conn["I"][k].closed
  /\ ~conn["R"][j].closed
  /\ conn["I"][k].currentRemoteDescription # 0
  /\ conn["I"][k].currentRemoteDescription \div 10 = j
  /\ conn["R"][j].signalingState = "stable"
  /\ conn["R"][j].currentRemoteDescription = k
  /\ \E i \in 1..MaxCand : \/ conn["I"][k].added[CandId("R", j, i)] > 0
                           \/ conn["R"][j].added[CandId("I", k, i)] > 0

\* The channel of initiator session k opens.  The responder's ondatachannel
\* stores the channel; the initiator's onopen calls sendFileInChunks, which
\* sends the metadata and starts reading the first slice.
channelOpen(k, j) ==
  /\ chan[k].state = "connecting"
  /\ Negotiated(k, j)
  /\ chan' = [chan EXCEPT ![k] = [state |-> "open", peer |-> j,
                                  remote |-> "open"]]
  /\ dataChannel' = [dataChannel EXCEPT !["R"] = k]
  /\ net' = [net EXCEPT ![k] = Append(@, Meta(k, run[k].size))]
  /\ sent' = [sent EXCEPT ![k] = Append(@, Logged(Meta(k, run[k].size), k))]
  /\ run' = [run EXCEPT ![k].pos = "reading"]
  /\ UNCHANGED <<mode, shareCode, file, peerConnection, receivedChunks,
                 receivedFileSize, fileMetadata, sess, code, conn, hfc,
                 captured, rec, wq, lsn, inv, timer, rTimers, delivered,
                 progress, answerWrites, delIssued, nCancel, cancelDone>>

\* The slice as it would be if readSlice ignored its offset.
SliceFromStart(k, size, o) ==
  SubSeq(FileBytes(k, size), 1, Min(CHUNK_SIZE, size))

\* fileToSend.slice(o, o + CHUNK_SIZE)
Slice(k, size, o) == SubSeq(FileBytes(k, size), o + 1, Min(o + CHUNK_SIZE, size))

\* reader.onload of the run of session k: hand the slice to
\* dataChannel.current (send throws unless that channel is open; nothing is
\* sent when the ref is null), advance the offset, then read the next slice
\* or schedule the cleanup.
onload(k) ==
  LET o == run[k].offset
      size == run[k].size
      result == Slice(k, size, o)
      d == dataChannel["I"] IN
  /\ run[k].pos = "reading"
  /\ IF d # 0 /\ chan[d].state # "open"
       THEN /\ run' = [run EXCEPT ![k].pos = "failed"]
            /\ UNCHANGED <<net, sent, timer>>
       ELSE /\ net' = IF d # 0 /\ chan[d].remote = "open"
                        THEN [net EXCEPT ![d] = Append(@, Bin(result))]
                        ELSE net
            /\ sent' = IF d # 0
                         THEN [sent EXCEPT ![k] =
                                 Append(@, Logged(Bin(result), d))]
                         ELSE sent
            /\ IF o + Len(result) < size
                 THEN /\ run' = [run EXCEPT ![k].offset = o + Len(result)]
                      /\ UNCHANGED timer
                 ELSE /\ run' = [run EXCEPT ![k].offset = o + Len(result),
                                            ![k].pos = "done"]
                      /\ timer' = [timer EXCEPT ![k] = "armed"]
  /\ UNCHANGED <<appVars, sess, code, conn, hfc, captured, rec, wq, lsn, inv,
                 chan, rTimers, delivered, progress, answerWrites, delIssued,
                 nCancel, cancelDone>>

\* The initiator's channel learns that the other end was closed.
onclose(k) ==
  /\ chan[k].state = "open"
  /\ chan[k].remote = "closed"
  /\ chan' = [chan EXCEPT ![k].state = "closed"]
  /\ UNCHANGED <<appVars, sess, code, conn, hfc, captured, rec, wq, lsn, inv,
                 net, run, sent, timer, rTimers, delivered, progress,
                 answerWrites, delIssued, nCancel, cancelDone>>

\* The callback sendFileInChunks passed to setTimeout: deleteDoc if the
\* shareCode of its closure is non-empty, then resetState.
\* The 3000 ms delay is measured from the last send and is unrelated to when
\* the receiver handles its messages, so the callback may run at any point
\* after it was scheduled.
senderTimeout(k) ==
  /\ timer[k] = "armed"
  /\ IF captured[k] # 0
       THEN /\ wq' = Issue("I", [op |-> "delete", code |-> captured[k],
                                 val |-> 1, cont |-> "reset", k |-> k])
            /\ delIssued' = [delIssued EXCEPT !["I"] = @ \cup {captured[k]}]
            /\ timer' = [timer EXCEPT ![k] = "deleting"]
            /\ UNCHANGED <<appVars, conn, chan, net, inv>>
       ELSE /\ \E keep \in KeepChoices("I") : ResetState("I", keep)
            /\ timer' = [timer EXCEPT ![k] = "fired"]
            /\ UNCHANGED <<wq, delIssued>>
  /\ UNCHANGED <<sess, code, hfc, captured, rec, lsn, run, sent, rTimers,
                 delivered, progress, answerWrites, nCancel, cancelDone>>

\* ---------------------------------------------------------------- receiver
\* Math.round((received / size) * 100): round half up; a division by zero
\* gives NaN (0 / 0) or Infinity.
Progress(received, size) ==
  IF size = 0 THEN (IF received = 0 THEN NaN ELSE Infinity)
  ELSE (200 * received + size) \div (2 * size)

\* The blob handed to the download link, under fileMetadata.current.name.
Download(chunks, name) == [name |-> name, bytes |-> Concat(chunks)]

\* onmessage of channel c calls handleReceiveMessage with the next message.
\* Text that JSON.parse accepts replaces the metadata and empties the buffer;
\* other text is dropped; a chunk is buffered and counted, then compared with
\* the size of the metadata (a TypeError when there is none), which may
\* trigger the download and schedule resetState.
handleReceiveMessage(c) ==
  LET m == Head(net[c])
      chunks == Append(receivedChunks["R"], m.bytes)
      received == receivedFileSize["R"] + Len(m.bytes)
      meta == fileMetadata["R"] IN
  /\ chan[c].remote = "open"
  /\ net[c] # <<>>
  /\ net' = [net EXCEPT ![c] = Tail(@)]
  /\ CASE m.t = "meta" ->
            /\ fileMetadata' = [fileMetadata EXCEPT !["R"] =
                                  [name |-> m.name, size |-> m.size]]
            /\ receivedChunks' = [receivedChunks EXCEPT !["R"] = <<>>]
            /\ receivedFileSize' = [receivedFileSize EXCEPT !["R"] = 0]
            /\ UNCHANGED <<progress, delivered, rTimers>>
       [] m.t = "text" ->
            UNCHANGED <<fileMetadata, receivedChunks, receivedFileSize,
                        progress, delivered, rTimers>>
       [] m.t = "bin" ->
            /\ receivedChunks' = [receivedChunks EXCEPT !["R"] = chunks]
            /\ receivedFileSize' = [receivedFileSize EXCEPT !["R"] = received]
            /\ UNCHANGED fileMetadata
            /\ IF meta = NoMeta
                 THEN UNCHANGED <<progress, delivered, rTimers>>
                 ELSE /\ progress' = Progress(received, meta.size)
                      /\ IF received = meta.size
                           THEN /\ delivered' =
                                     Append(delivered,
                                            Download(chunks, meta.name))
                                /\ rTimers' = [rTimers EXCEPT
                                                  ![chan[c].peer] = @ + 1]
                           ELSE UNCHANGED <<delivered, rTimers>>
  /\ UNCHANGED <<mode, shareCode, file, peerConnection, dataChannel, sess,
                 code, conn, hfc, captured, rec, wq, lsn, inv, chan, run,
                 sent, timer, answerWrites, delIssued, nCancel, cancelDone>>

\* The callback handleReceiveMessage of session j passed to setTimeout:
\* resetState, on the refs as they are when it runs.
receiverTimeout(j) ==
  /\ rTimers[j] > 0
  /\ rTimers' = [rTimers EXCEPT ![j] = @ - 1]
  /\ ResetState("R", 0)
  /\ UNCHANGED <<sess, code, hfc, captured, rec, wq, lsn, run, sent, timer,
                 delivered, progress, answerWrites, delIssued, nCancel,
                 cancelDone>>

\* ------------------------------------------------------------ the program
\* The user of App a has not started a session yet.
First(a) == sess[a] = 0

\* The program when each user starts one session.
Next ==
  \/ \E n \in 0..MaxFileSize : First("I") /\ handleFileChange(n)
  \/ \E k \in Sessions : createOfferDone(k)
  \/ \E k \in Sessions : setLocalDescriptionDone(k)
  \/ \E k \in Sessions : setDocDone(k)
  \/ \E a \in Apps, k \in Sessions : onicecandidate(a, k)
  \/ \E a \in Apps : candidateWritten(a)
  \/ \E a \in Apps : handleCancel(a)
  \/ \E a \in Apps : deleteDocDone(a)
  \/ \E k \in Sessions : onSnapshotInitiator(k)
  \/ \E k \in Sessions : setRemoteAnswerDone(k)
  \/ \E c \in Codes : First("R") /\ handleReceiveSubmit(c)
  \/ \E j \in Sessions : onSnapshotResponder(j)
  \/ \E j \in Sessions : setRemoteOfferDone(j)
  \/ \E j \in Sessions : createAnswerDone(j)
  \/ \E j \in Sessions : setLocalAnswerDone(j)
  \/ \E n \in Invs : answerWritten(n)
  \/ \E k \in Sessions, j \in Sessions : channelOpen(k, j)
  \/ \E k \in Sessions : onload(k)
  \/ \E k \in Sessions : onclose(k)
  \/ \E k \in Sessions : senderTimeout(k)
  \/ \E c \in Chans : handleReceiveMessage(c)
  \/ \E j \in Sessions : receiverTimeout(j)

Spec == Init /\ [][Next]_vars

\* ------------------------------------------------- an arbitrary remote peer
\* The receiver's handlers take whatever the remote end of the channel sends.
\* To examine them on every input, the remote end is a peer that completed the
\* exchange with responder connection j by means of its own and then sends any
\* text or binary messages in any order.
Text == [t |-> "text", name |-> 0, size |-> 0, bytes |-> <<>>]
PeerMessages ==
  {Meta(PeerChan, n) : n \in (0..MaxFileSize) \cup {BigSize}} \cup {Text}
    \cup {Bin([i \in 1..n |-> 0]) : n \in (0..CHUNK_SIZE) \cup {BigSize - 1}}

\* ondatachannel of the responder's connection j.
peerChannel(j) ==
  /\ peerConnection["R"] = j
  /\ dataChannel["R"] = 0
  /\ dataChannel' = [dataChannel EXCEPT !["R"] = PeerChan]
  /\ chan' = [chan EXCEPT ![PeerChan] = [state |-> "open", peer |-> j,
                                         remote |-> "open"]]
  /\ net' = [net EXCEPT ![PeerChan] = <<>>]
  /\ UNCHANGED <<mode, shareCode, file, peerConnection, receivedChunks,
                 receivedFileSize, fileMetadata, sess, code, conn, hfc,
                 captured, rec, wq, lsn, inv, run, sent, timer, rTimers,
                 delivered, progress, answerWrites, delIssued, nCancel,
                 cancelDone>>

peerSend(m) ==
  /\ chan[PeerChan].remote = "open"
  /\ Len(sent[PeerChan]) < MaxPeerMsgs
  /\ net' = [net EXCEPT ![PeerChan] = Append(@, m)]
  /\ sent' = [sent EXCEPT ![PeerChan] = Append(@, Logged(m, PeerChan))]
  /\ UNCHANGED <<appVars, sess, code, conn, hfc, captured, rec, wq, lsn, inv,
                 chan, run, timer, rTimers, delivered, progress, answerWrites,
                 delIssued, nCancel, cancelDone>>

NextRecv ==
  \/ \E c \in Codes : handleReceiveSubmit(c)
  \/ \E j \in Sessions : onSnapshotResponder(j)
  \/ \E j \in Sessions : peerChannel(j)
  \/ \E m \in PeerMessages : peerSend(m)
  \/ \E c \in Chans : handleReceiveMessage(c)
  \/ \E j \in Sessions : receiverTimeout(j)
  \/ handleCancel("R")
  \/ deleteDocDone("R")

\* The responder against an arbitrary remote peer.
SpecRecv == Init /\ [][NextRecv]_vars

\* ------------------------------------------------- runs without Cancel
\* The program when each user starts one session and no user clicks Cancel.
NextNoCancel ==
  \/ \E n \in 0..MaxFileSize : First("I") /\ handleFileChange(n)
  \/ \E c \in Codes : First("R") /\ handleReceiveSubmit(c)
  \/ \E k \in Sessions : createOfferDone(k)
  \/ \E k \in Sessions : setLocalDescriptionDone(k)
  \/ \E k \in Sessions : setDocDone(k)
  \/ \E a \in Apps, k \in Sessions : onicecandidate(a, k)
  \/ \E a \in Apps : candidateWritten(a)
  \/ \E k \in Sessions : onSnapshotInitiator(k)
  \/ \E k \in Sessions : setRemoteAnswerDone(k)
  \/ \E j \in Sessions : onSnapshotResponder(j)
  \/ \E j \in Sessions : setRemoteOfferDone(j)
  \/ \E j \in Sessions : createAnswerDone(j)
  \/ \E j \in Sessions : setLocalAnswerDone(j)
  \/ \E n \in Invs : answerWritten(n)
  \/ \E k \in Sessions, j \in Sessions : channelOpen(k, j)
  \/ \E k \in Sessions : onload(k)
  \/ \E k \in Sessions : onclose(k)
  \/ \E k \in Sessions : senderTimeout(k)
  \/ \E c \in Chans : handleReceiveMessage(c)
  \/ \E j \in Sessions : receiverTimeout(j)

\* The event loop runs every task that is queued: every callback, every
\* completion of a transport operation, of a write, of a read, and every
\* timeout is taken if it stays enabled.  Only the user's actions are not
\* forced.
Fairness ==
  /\ WF_vars(\E k \in Sessions : createOfferDone(k))
  /\ WF_vars(\E k \in Sessions : setLocalDescriptionDone(k))
  /\ WF_vars(\E k \in Sessions : setDocDone(k))
  /\ WF_vars(\E a \in Apps, k \in Sessions : onicecandidate(a, k))
  /\ WF_vars(\E a \in Apps : candidateWritten(a))
  /\ WF_vars(\E k \in Sessions : onSnapshotInitiator(k))
  /\ WF_vars(\E k \in Sessions : setRemoteAnswerDone(k))
  /\ WF_vars(\E j \in Sessions : onSnapshotResponder(j))
  /\ WF_vars(\E j \in Sessions : setRemoteOfferDone(j))
  /\ WF_vars(\E j \in Sessions : createAnswerDone(j))
  /\ WF_vars(\E j \in Sessions : setLocalAnswerDone(j))
  /\ WF_vars(\E n \in Invs : answerWritten(n))
  /\ WF_vars(\E k \in Sessions, j \in Sessions : channelOpen(k, j))
  /\ WF_vars(\E k \in Sessions : onload(k))
  /\ WF_vars(\E k \in Sessions : onclose(k))
  /\ WF_vars(\E k \in Sessions : senderTimeout(k))
  /\ WF_vars(\E c \in Chans : handleReceiveMessage(c))
  /\ WF_vars(\E j \in Sessions : receiverTimeout(j))

FairSpec == Init /\ [][NextNoCancel]_vars /\ Fairness

\* ---------------------------------------- the sender and an arbitrary peer
\* onopen of the channel of initiator session k when the remote end is a peer
\* that is not this program: sendFileInChunks sends the metadata and starts
\* reading the first slice.
peerOpen(k) ==
  /\ chan[k].state = "connecting"
  /\ ~conn["I"][k].closed
  /\ conn["I"][k].localDescription # 0
  /\ chan' = [chan EXCEPT ![k] = [state |-> "open", peer |-> 0,
                                  remote |-> "open"]]
  /\ net' = [net EXCEPT ![k] = Append(@, Meta(k, run[k].size))]
  /\ sent' = [sent EXCEPT ![k] = Append(@, Logged(Meta(k, run[k].size), k))]
  /\ run' = [run EXCEPT ![k].pos = "reading"]
  /\ UNCHANGED <<appVars, sess, code, conn, hfc, captured, rec, wq, lsn, inv,
                 timer, rTimers, delivered, progress, answerWrites, delIssued,
                 nCancel, cancelDone>>

\* The initiator offering and sending, session after session, when its user
\* does not click Cancel.
NextSend ==
  \/ \E n \in 0..MaxFileSize : handleFileChange(n)
  \/ \E k \in Sessions : createOfferDone(k)
  \/ \E k \in Sessions : setLocalDescriptionDone(k)
  \/ \E k \in Sessions : setDocDone(k)
  \/ \E k \in Sessions : peerOpen(k)
  \/ \E k \in Sessions : onload(k)
  \/ \E k \in Sessions : senderTimeout(k)

SpecSend == Init /\ [][NextSend]_vars

\* ------------------------------------------- the rendezvous, with a rejoin
\* The signalling of the program when the responder's user may cancel and
\* submit a code again: everything up to the opening of the channel.
NextRejoin ==
  \/ \E n \in 0..MaxFileSize : First("I") /\ handleFileChange(n)
  \/ \E k \in Sessions : createOfferDone(k)
  \/ \E k \in Sessions : setLocalDescriptionDone(k)
  \/ \E k \in Sessions : setDocDone(k)
  \/ \E a \in Apps, k \in Sessions : onicecandidate(a, k)
  \/ \E a \in Apps : candidateWritten(a)
  \/ \E k \in Sessions : onSnapshotInitiator(k)
  \/ \E k \in Sessions : setRemoteAnswerDone(k)
  \/ \E c \in Codes : handleReceiveSubmit(c)
  \/ handleCancel("R")
  \/ deleteDocDone("R")
  \/ \E j \in Sessions : onSnapshotResponder(j)
  \/ \E j \in Sessions : setRemoteOfferDone(j)
  \/ \E j \in Sessions : createAnswerDone(j)
  \/ \E j \in Sessions : setLocalAnswerDone(j)
  \/ \E n \in Invs : answerWritten(n)

SpecRejoin == Init /\ [][NextRejoin]_vars

\* ------------------------------------------------------------------ claims
\* Cancel was clicked in session k of App a (processed or still awaiting its
\* deleteDoc).
Cancelled(a, k) ==
  \/ k \in cancelDone[a]
  \/ \E i \in 1..Len(wq[a]) :
       wq[a][i].cont = "reset" /\ wq[a][i].val = 0 /\ wq[a][i].k = k

\* C1: once the initiator's handleCancel of a session has been fully processed
\* (deleteDoc acknowledged, resetState done), the document of that session's
\* share code does not exist, and this stays so whatever step of
\* handleFileChange the cancel interleaved with.
C1_CancelledRecordGone ==
  \A k \in cancelDone["I"] : ~rec[code["I"][k]].exists

\* C2: the responder never deletes the document: a step in which a
\* responder-side cancellation is processed leaves an existing document in
\* existence, and so does the responder's cleanup after the download.
C2_ResponderKeepsRecord ==
  [][\A c \in Codes :
       (/\ rec[c].exists
        /\ \/ cancelDone'["R"] # cancelDone["R"]
           \/ \E j \in Sessions : rTimers'[j] < rTimers[j])
         => rec'[c].exists]_vars

\* C3: in a session in which Cancel was not clicked, once the timeout scheduled
\* after the last chunk has run, the initiator has issued the deleteDoc of the
\* share code handleFileChange generated for the session.
C3_CleanupDeletesRecord ==
  \A k \in Sessions :
    (timer[k] = "fired" /\ ~Cancelled("I", k)) => code["I"][k] \in delIssued["I"]

\* The states of the receiver (spec 4.2), read off the refs: Complete from the
\* download until the scheduled resetState, Receiving once metadata is stored.
Complete == peerConnection["R"] # 0 /\ rTimers[peerConnection["R"]] > 0
Receiving == fileMetadata["R"] # NoMeta /\ ~Complete
AwaitingMetadata == fileMetadata["R"] = NoMeta /\ ~Complete

\* This step is handleReceiveMessage taking the next message of channel c.
Dispatch(c) ==
  /\ chan[c].remote = "open"
  /\ chan' = chan
  /\ net[c] # <<>>
  /\ net'[c] = Tail(net[c])

\* C4: a text message that parses as metadata and arrives while the receiver is
\* in Receiving is ignored: buffer, byte counter and stored {name, size} stay
\* as they are.
C4_MetadataIgnoredWhileReceiving ==
  [][\A c \in Chans :
       (Dispatch(c) /\ Receiving /\ Head(net[c]).t = "meta")
         => /\ receivedChunks' = receivedChunks
            /\ receivedFileSize' = receivedFileSize
            /\ fileMetadata' = fileMetadata]_vars

\* The file of initiator session k as the download link would get it.
FileOf(k) == [name |-> k, bytes |-> FileBytes(k, run[k].size)]

\* C5: without cancellation and with every callback scheduled fairly, once the
\* channel of a session is open the receiver eventually has shown progress 100
\* and has handed to the download a blob byte-identical to the file.
C5_EndToEndDelivery ==
  \A k \in Sessions :
    (chan[k].state = "open")
      ~> (progress = 100 /\ \E i \in 1..Len(delivered) : delivered[i] = FileOf(k))

\* C6: of what the run of sendFileInChunks of session k handed to a channel:
\* nothing before the channel opened; the first message is the one metadata
\* message {name, size} and all others are binary; the binary messages are in
\* increasing file offset; and once the run has completed their lengths sum to
\* size.  (One read in flight at a time is how a run is represented: it has a
\* single offset and a single pending read.)
C6_WireFraming ==
  \A k \in Sessions :
    LET log == sent[k] IN
    /\ chan[k].state \in {"none", "connecting"} => log = <<>>
    /\ log # <<>> => log[1] = Logged(Meta(k, run[k].size), log[1].ch)
    /\ \A i \in 2..Len(log) : log[i].t = "bin"
    /\ \A i \in 2..Len(log) : \A j \in (i + 1)..Len(log) :
         \A x \in 1..Len(log[i].bytes) : \A y \in 1..Len(log[j].bytes) :
           log[i].bytes[x] < log[j].bytes[y]
    /\ run[k].pos = "done" => (log # <<>> /\ SumLen(Tail(log)) = run[k].size)

\* C7: within one responder session the sequence setRemoteDescription(offer),
\* createAnswer, setLocalDescription(answer), updateDoc({answer,
\* answerCandidates: []}) is carried out at most once, so at most one answer is
\* written, whatever snapshots arrive while an invocation is suspended.
C7_AnswerAtMostOnce ==
  \A j \in Sessions : Len(answerWrites[j]) <= 1

\* C8: while a document exists, no write removes a candidate from
\* offerCandidates or from answerCandidates.
C8_CandidatesOnlyGrow ==
  [][\A c \in Codes :
       (rec[c].exists /\ rec'[c].exists)
         => /\ rec[c].offerCandidates \subseteq rec'[c].offerCandidates
            /\ rec[c].answerCandidates \subseteq rec'[c].answerCandidates]_vars

\* C9: a remote candidate is passed to addIceCandidate of a connection at
\* most once, however many snapshots contain it.
C9_CandidateAppliedOnce ==
  \A a \in Apps : \A k \in Sessions : \A c \in AllCands :
    conn[a][k].added[c] <= 1

\* C9 as amended: no applied-set is kept, so a candidate is passed to
\* addIceCandidate again for every snapshot that contains it; what holds is
\* that handling one snapshot applies each of its candidates at most once.
C9_AppliedOncePerSnapshot ==
  [][\A a \in Apps : \A k \in Sessions : \A c \in AllCands :
       conn'[a][k].added[c] <= conn[a][k].added[c] + 1]_vars

\* A candidate that was in two snapshots has been applied twice to the
\* connection of a live session.
C9_Witness ==
  \E a \in Apps : \E k \in Sessions : \E c \in AllCands :
    /\ peerConnection[a] = k
    /\ conn[a][k].added[c] >= 2

\* C10: within one initiator session setRemoteDescription(answer) is called at
\* most once, whatever snapshots arrive before currentRemoteDescription is set.
C10_AnswerAppliedOnce ==
  \A k \in Sessions : conn["I"][k].srdCalls <= 1

\* This step acknowledges the write at the head of the queue of App a.
Acked(a) == wq[a] # <<>> /\ wq'[a] = Tail(wq[a])

\* C11: in a session of the initiator in which Cancel was not clicked, the
\* updateDoc of every candidate the connection reported appends it to
\* offerCandidates of the session's document, and a candidate in
\* offerCandidates stays there as long as the document exists.
C11_CandidateAppended ==
  [][\A k \in Sessions :
       LET c == code["I"][k] IN
       /\ (/\ Acked("I")
           /\ Head(wq["I"]).op = "offerCand"
           /\ Head(wq["I"]).k = k
           /\ ~Cancelled("I", k))
            => Head(wq["I"]).val \in rec'[c].offerCandidates
       /\ (c # 0 /\ rec[c].exists /\ rec'[c].exists)
            => rec[c].offerCandidates \subseteq rec'[c].offerCandidates]_vars

\* C12: the step that processes a click on Cancel leaves the App with its
\* connection and channel closed and cleared, the buffer empty, the byte
\* counter 0, no metadata, no share code, and in the idle view: nothing else
\* of the session is handled between the click and the release.
C12_CancelResetsAtOnce ==
  [][\A a \in Apps :
       nCancel'[a] > nCancel[a]
         => /\ peerConnection'[a] = 0
            /\ dataChannel'[a] = 0
            /\ receivedChunks'[a] = <<>>
            /\ receivedFileSize'[a] = 0
            /\ fileMetadata'[a] = NoMeta
            /\ shareCode'[a] = 0
            /\ mode'[a] = "idle"]_vars

\* The payloads of the binary messages a run handed to the channel, in order.
Payloads(log) == [i \in 1..(Len(log) - 1) |-> log[i + 1].bytes]

\* C13: the slices the loop of sendFileInChunks has produced so far are each
\* at most CHUNK_SIZE bytes and, concatenated in the order sent, are the
\* bytes [0, offset) of the file (so they are contiguous, do not overlap and
\* are in file order); when the run has completed they are the whole file.
C13_ChunkingRoundTrip ==
  \A k \in Sessions :
    sent[k] # <<>> =>
      LET chunks == Payloads(sent[k])
          bytes == FileBytes(k, run[k].size) IN
      /\ run[k].offset <= run[k].size
      /\ \A i \in 1..Len(chunks) : Len(chunks[i]) <= CHUNK_SIZE
      /\ Concat(chunks) = SubSeq(bytes, 1, run[k].offset)
      /\ run[k].pos = "done" => Concat(chunks) = bytes

\* A run has completed for a file that needs full chunks and a shorter last
\* one.
C13_Witness ==
  \E k \in Sessions :
    /\ run[k].pos = "done"
    /\ run[k].size > CHUNK_SIZE
    /\ run[k].size % CHUNK_SIZE # 0
    /\ Len(sent[k]) > 2

\* C14: a run of sendFileInChunks that has completed sent ceil(size /
\* CHUNK_SIZE) binary messages, so none for an empty file.
C14_ChunkCount ==
  \A k \in Sessions :
    run[k].pos = "done" =>
      Len(Payloads(sent[k])) = (run[k].size + CHUNK_SIZE - 1) \div CHUNK_SIZE

\* C15: while the receiver holds metadata of a size N > 0 and has not
\* completed, the percentage computed for a chunk is not below the one computed
\* for the chunk before it, and it is 100 exactly when the byte counter has
\* reached N.
C15_ProgressExact ==
  [][\A c \in Chans :
       (/\ Dispatch(c)
        /\ Head(net[c]).t = "bin"
        /\ Receiving
        /\ fileMetadata["R"].size > 0)
         => /\ receivedChunks["R"] # <<>> => progress' >= progress
            /\ progress' = 100
                 <=> receivedFileSize'["R"] = fileMetadata["R"].size]_vars

\* C16: the percentage the receiver computes for a chunk is an integer from 0
\* to 100, and it is 0 when the size of the metadata is 0, whatever the length
\* of the chunk.
C16_ProgressRange ==
  [][\A c \in Chans :
       (/\ Dispatch(c)
        /\ Head(net[c]).t = "bin"
        /\ fileMetadata["R"] # NoMeta)
         => /\ progress' \in 0..100
            /\ fileMetadata["R"].size = 0 => progress' = 0]_vars

\* C17: a chunk that arrives while no metadata is stored is discarded: the
\* buffer, the byte counter and the metadata stay as they are and nothing is
\* handed to the download.
C17_ChunkBeforeMetadataDropped ==
  [][\A c \in Chans :
       (/\ Dispatch(c)
        /\ Head(net[c]).t = "bin"
        /\ AwaitingMetadata)
         => /\ receivedChunks' = receivedChunks
            /\ receivedFileSize' = receivedFileSize
            /\ fileMetadata' = fileMetadata
            /\ delivered' = delivered]_vars

\* C18: once the receiver has handed the file to the download, no message
\* that arrives before resetState runs changes the metadata, the buffer or the
\* byte counter, and none triggers another download.
C18_CompleteAbsorbing ==
  [][\A c \in Chans :
       (Dispatch(c) /\ Complete)
         => /\ fileMetadata' = fileMetadata
            /\ receivedChunks' = receivedChunks
            /\ receivedFileSize' = receivedFileSize
            /\ delivered' = delivered]_vars

\* The refs and the view of App a are left as they are by this step.
Untouched(a) ==
  /\ peerConnection'[a] = peerConnection[a]
  /\ dataChannel'[a] = dataChannel[a]
  /\ shareCode'[a] = shareCode[a]
  /\ mode'[a] = mode[a]
  /\ file'[a] = file[a]
  /\ receivedChunks'[a] = receivedChunks[a]
  /\ receivedFileSize'[a] = receivedFileSize[a]
  /\ fileMetadata'[a] = fileMetadata[a]
  /\ \A k \in Sessions : conn'[a][k] = conn[a][k]

\* C19: when the timeout a session scheduled at its completion runs while a
\* later session of the same App is alive, it leaves that session as it is.
C19_StaleTimerHarmless ==
  [][/\ \A j \in Sessions :
          (/\ rTimers'[j] < rTimers[j]
           /\ peerConnection["R"] \notin {0, j}) => Untouched("R")
     /\ \A k \in Sessions :
          (/\ timer[k] = "armed"
           /\ timer'[k] # "armed"
           /\ peerConnection["I"] \notin {0, k}) => Untouched("I")]_vars

\* C20: a snapshot delivered to the listener of a session that has been reset
\* causes no operation on any connection, in particular none on the
\* connection of a session started since, and starts no answer sequence.
C20_DisposedSessionInert ==
  [][\A a \in Apps : \A k \in Sessions :
       (/\ lsn[a][k] = "pending"
        /\ lsn'[a][k] = "idle"
        /\ peerConnection[a] # k) => (conn' = conn /\ inv' = inv)]_vars

\* C21: once the cancellation of an initiator session has been processed, a
\* run of sendFileInChunks of that session that had not yet handed over its
\* last chunk hands nothing more to a channel, does not complete ('File sent
\* successfully') and does not schedule the delayed cleanup.
C21_CancelStopsRun ==
  [][\A k \in Sessions :
       (k \in cancelDone["I"] /\ run[k].pos = "reading")
         => /\ sent'[k] = sent[k]
            /\ run'[k].pos # "done"
            /\ timer'[k] = timer[k]]_vars

====
